---------------------------- MODULE Spec2Model ----------------------------
(***************************************************************************)
(* Load-flow solvers of NishDananjaya/Load_flow_program:                   *)
(*   src/algorithms/newton_raphson.py  (NRLoadFlow)                        *)
(*   src/algorithms/gauss_seidel.py    (GaussSeidel)                       *)
(*   src/gui.py                        (ModernLoadFlowGUI.run_analysis)    *)
(*                                                                         *)
(* Numbers.  Every real quantity (voltage magnitude, power, impedance,     *)
(* admittance, tolerance, step size, acceleration factor) is a fixed-point *)
(* integer counted in hundredths: 1.00 p.u. is 100.  Products and          *)
(* quotients are rounded to the nearest hundredth, the way the floating    *)
(* point of the source rounds to the nearest double.  Angles are counted   *)
(* in steps of 3 degrees (120 steps to the turn); cos and sin come from a  *)
(* table rounded to hundredths.  A complex number is a pair <<re, im>>;    *)
(* the not-a-number value numpy produces for a division by a zero complex  *)
(* is the empty tuple.                                                     *)
(***************************************************************************)
EXTENDS Integers, Sequences, FiniteSets

\* Fixed-point resolution: 1.00 is Scale hundredths.
Scale == 10 * 10

\* Angle steps to the half turn (one step is 3 degrees).
HalfTurn == 6 * 10

\* ----------------------------------------------------------------- bounds
MaxBuses == 3
MaxLinesY == 2
MaxIter == 3

\* ------------------------------------------------------------- arithmetic
Abs(a) == IF a < 0 THEN -a ELSE a

Max2(a, b) == IF b > a THEN b ELSE a

\* a / b rounded to the nearest integer, halves away from zero (b > 0).
RDiv(a, b) == IF a >= 0 THEN (2 * a + b) \div (2 * b) ELSE -((2 * (-a) + b) \div (2 * b))

\* Product of two fixed-point reals.
FMul(a, b) == RDiv(a * b, Scale)

NaN == << >>

IsNaN(z) == z = NaN

CZero == <<0, 0>>

CAdd(a, b) == IF IsNaN(a) \/ IsNaN(b) THEN NaN ELSE <<a[1] + b[1], a[2] + b[2]>>

CSub(a, b) == IF IsNaN(a) \/ IsNaN(b) THEN NaN ELSE <<a[1] - b[1], a[2] - b[2]>>

CNeg(a) == IF IsNaN(a) THEN NaN ELSE <<-a[1], -a[2]>>

CConj(a) == IF IsNaN(a) THEN NaN ELSE <<a[1], -a[2]>>

CMul(a, b) ==
    IF IsNaN(a) \/ IsNaN(b) THEN NaN
    ELSE <<RDiv(a[1] * b[1] - a[2] * b[2], Scale), RDiv(a[1] * b[2] + a[2] * b[1], Scale)>>

\* |a|^2 in units of 1/Scale^2 (exact).
CNorm2(a) == a[1] * a[1] + a[2] * a[2]

\* numpy complex division: a zero divisor yields inf/nan parts, no exception.
CDiv(a, b) ==
    IF IsNaN(a) \/ IsNaN(b) \/ b = CZero THEN NaN
    ELSE <<RDiv((a[1] * b[1] + a[2] * b[2]) * Scale, CNorm2(b)),
           RDiv((a[2] * b[1] - a[1] * b[2]) * Scale, CNorm2(b))>>

\* Real factor times complex.
CScale(s, a) == IF IsNaN(a) THEN NaN ELSE <<FMul(s, a[1]), FMul(s, a[2])>>

\* cos of k angle steps, 0 <= k <= 30 (0 to 90 degrees), in hundredths.
CosTab == <<100, 100, 99, 99, 98, 97, 95, 93, 91, 89, 87, 84, 81, 78, 74, 71,
            67, 63, 59, 54, 50, 45, 41, 36, 31, 26, 21, 16, 10, 5, 0>>

\* An angle in steps brought into (-HalfTurn, HalfTurn], the range of np.angle.
WrapAngle(a) == ((a + HalfTurn - 1) % (2 * HalfTurn)) - (HalfTurn - 1)

Cos(a) ==
    LET w == Abs(WrapAngle(a))
    IN  IF 2 * w <= HalfTurn THEN CosTab[w + 1] ELSE -CosTab[(HalfTurn - w) + 1]

Sin(a) == Cos(a - HalfTurn \div 2)

\* np.radians on the angle grid: degrees to angle steps.
Radians(deg) == deg \div 3

\* ------------------------------------------------------------ program data
\* A bus record: the columns 1..7 of a row of bus_data (column 0 is the id).
\*   type, |V| set-point, angle set-point (degrees), PG, QG, PL, QL
BusRec(t, vm, va, pg, qg, pl, ql) ==
    [type |-> t, vm |-> vm, va |-> va, PG |-> pg, QG |-> qg, PL |-> pl, QL |-> ql]

\* A row of a bus table of 10 columns: Qmin and Qmax after the 8 columns above.
BusRecQ(t, vm, va, pg, qg, pl, ql, qmin, qmax) ==
    [type |-> t, vm |-> vm, va |-> va, PG |-> pg, QG |-> qg, PL |-> pl, QL |-> ql,
     Qmin |-> qmin, Qmax |-> qmax]

\* self.bus_data.shape[1] >= 10
HasLimits(rec) == "Qmin" \in DOMAIN rec

\* A line record <<from, to, r, x, b>>, bus ids 1-based.
LineRec(i, j, r, x, b) == <<i, j, r, x, b>>

VARIABLES
    bus_data,        \* self.bus_data: sequence of bus records
    line_data,       \* self.line_data: sequence of line records
    method,          \* which solver class the instance is: "NR" | "GS" | "FD"
    use_sparse,      \* self.use_sparse of NRLoadFlow
    caller,          \* who called solve: "none" | "direct" | "gui"
    pc,              \* position: "idle" | "built" | "loop" | "exit" | "returned" | "raised" | "rejected" | "constructed"
    Ybus,            \* self.Ybus
    warned,          \* warnings.warn calls of build_ybus: the lines warned about
    cond_warned,     \* iterations whose "Jacobian is ill-conditioned" warning was printed
    types,           \* local types of solve
    V,               \* local V of solve (NR: <<|V|, angle>>; GS: <<re, im>>)
    it,              \* loop variable of solve
    converged,       \* local converged flag
    max_mis,         \* local max_mis (Unbound before its first assignment)
    iter_data,       \* NR: local iteration_data; GS: self.iter_data
    tol,             \* argument tol
    max_iter,        \* argument max_iter
    alpha,           \* argument alpha (GS)
    outcome,         \* how the loop ended: "none" | "empty" | "converged" | "singular" | "exhausted"
    ret,             \* the value solve returned (a record), or NoRet
    raised           \* the exception that left solve, or "none"

vars == <<bus_data, line_data, method, use_sparse, caller, pc, Ybus, warned, cond_warned, types, V, it,
          converged, max_mis, iter_data, tol, max_iter, alpha, outcome, ret, raised>>

Unbound == -1

NoRet == [none |-> TRUE]

NB == Len(bus_data)

Buses == 1..NB

\* ------------------------------------------------------------- build_ybus
ZeroYbus(nb) == [i \in 1..nb |-> [j \in 1..nb |-> CZero]]

\* 1 / complex(r, x) of a non-degenerate line.
LineY(line) == CDiv(<<Scale, 0>>, <<line[3], line[4]>>)

\* 1j * b / 2
LineShunt(line) == <<0, RDiv(line[5], 2)>>

\* abs(r) < 1e-12 and abs(x) < 1e-12: on the grid, r = 0 and x = 0.
ZeroImpedance(line) == line[3] = 0 /\ line[4] = 0

\* The four accumulations of one line, in the order the source applies them.
StampLineDropJI(Y, line) ==
    LET i == line[1]
        j == line[2]
        y == LineY(line)
        Y1 == [Y EXCEPT ![i][i] = CAdd(@, CAdd(y, LineShunt(line)))]
        Y2 == [Y1 EXCEPT ![j][j] = CAdd(@, CAdd(y, LineShunt(line)))]
        Y3 == [Y2 EXCEPT ![i][j] = CSub(@, y)]
    IN  Y3

\* Mutant: the half shunt is added at the from-bus only.
StampLineShuntAtI(Y, line) ==
    LET i == line[1]
        j == line[2]
        y == LineY(line)
        Y1 == [Y EXCEPT ![i][i] = CAdd(@, CAdd(y, LineShunt(line)))]
        Y2 == [Y1 EXCEPT ![j][j] = CAdd(@, y)]
        Y3 == [Y2 EXCEPT ![i][j] = CSub(@, y)]
        Y4 == [Y3 EXCEPT ![j][i] = CSub(@, y)]
    IN  Y4

StampLine(Y, line) ==
    LET i == line[1]
        j == line[2]
        y == LineY(line)
        Y1 == [Y EXCEPT ![i][i] = CAdd(@, CAdd(y, LineShunt(line)))]
        Y2 == [Y1 EXCEPT ![j][j] = CAdd(@, CAdd(y, LineShunt(line)))]
        Y3 == [Y2 EXCEPT ![i][j] = CSub(@, y)]
        Y4 == [Y3 EXCEPT ![j][i] = CSub(@, y)]
    IN  Y4

\* NRLoadFlow.build_ybus: the loop over line_data, from line k on.
RECURSIVE NRBuildFrom(_, _, _)
NRBuildFrom(Y, lines, k) ==
    IF k > Len(lines) THEN Y
    ELSE IF ZeroImpedance(lines[k]) THEN NRBuildFrom(Y, lines, k + 1)
         ELSE NRBuildFrom(StampLine(Y, lines[k]), lines, k + 1)

NRBuildYbus(nb, lines) == NRBuildFrom(ZeroYbus(nb), lines, 1)

\* The sum of s[lo..hi], by halves so that long vectors nest shallowly.
RECURSIVE SumRange(_, _, _)
SumRange(s, lo, hi) ==
    IF lo > hi THEN 0
    ELSE IF lo = hi THEN s[lo]
    ELSE LET mid == (lo + hi) \div 2
         IN  SumRange(s, lo, mid) + SumRange(s, mid + 1, hi)

SumSeq(s) == SumRange(s, 1, Len(s))

\* ------------------------------------------- build_ybus, sparse matrices
\* if self.use_sparse and nb > 50
SparseThreshold == 50

\* scipy's lil_matrix((nb, nb)): per row the sorted column numbers that hold
\* an entry (rows) and the entries in that order (data).
LilMatrix(nb) == [rows |-> [i \in 1..nb |-> << >>], data |-> [i \in 1..nb |-> << >>]]

\* The place of column j in a row's column list, 0 when the row has no entry
\* there.
LilPos(cols, j) ==
    IF \E p \in 1..Len(cols) : cols[p] = j
    THEN CHOOSE p \in 1..Len(cols) : cols[p] = j
    ELSE 0

\* Ybus[i, j] read from a lil_matrix: an entry that is not stored reads 0.
LilGet(L, i, j) ==
    LET p == LilPos(L.rows[i], j)
    IN  IF p = 0 THEN CZero ELSE L.data[i][p]

\* bisect_left: the number of stored columns of the row below j.
LilBisect(cols, j) == Cardinality({p \in 1..Len(cols) : cols[p] < j})

InsertAt(s, p, x) == SubSeq(s, 1, p) \o <<x>> \o SubSeq(s, p + 1, Len(s))

RemoveAt(s, p) == SubSeq(s, 1, p - 1) \o SubSeq(s, p + 1, Len(s))

\* Ybus[i, j] = v on a lil_matrix: a zero is not stored (a stored entry is
\* deleted), another value replaces the entry or is inserted in column order.
LilSet(L, i, j, v) ==
    LET p == LilPos(L.rows[i], j)
        q == LilBisect(L.rows[i], j)
    IN  IF v = CZero
        THEN IF p = 0 THEN L
             ELSE [rows |-> [L.rows EXCEPT ![i] = RemoveAt(@, p)],
                   data |-> [L.data EXCEPT ![i] = RemoveAt(@, p)]]
        ELSE IF p # 0 THEN [L EXCEPT !.data[i][p] = v]
             ELSE [rows |-> [L.rows EXCEPT ![i] = InsertAt(@, q, j)],
                   data |-> [L.data EXCEPT ![i] = InsertAt(@, q, v)]]

\* Mutant: the off-diagonal entries are assigned, not accumulated.
LilStampLineAssign(L, line) ==
    LET i == line[1]
        j == line[2]
        y == LineY(line)
        L1 == LilSet(L, i, i, CAdd(LilGet(L, i, i), CAdd(y, LineShunt(line))))
        L2 == LilSet(L1, j, j, CAdd(LilGet(L1, j, j), CAdd(y, LineShunt(line))))
        L3 == LilSet(L2, i, j, CSub(CZero, y))
        L4 == LilSet(L3, j, i, CSub(CZero, y))
    IN  L4

\* The four accumulations of one line on a lil_matrix (lines 42-45): each
\* += and -= reads the entry and stores the result.
LilStampLine(L, line) ==
    LET i == line[1]
        j == line[2]
        y == LineY(line)
        L1 == LilSet(L, i, i, CAdd(LilGet(L, i, i), CAdd(y, LineShunt(line))))
        L2 == LilSet(L1, j, j, CAdd(LilGet(L1, j, j), CAdd(y, LineShunt(line))))
        L3 == LilSet(L2, i, j, CSub(LilGet(L2, i, j), y))
        L4 == LilSet(L3, j, i, CSub(LilGet(L3, j, i), y))
    IN  L4

\* The loop over line_data on a lil_matrix, from line k on.
RECURSIVE NRBuildLilFrom(_, _, _)
NRBuildLilFrom(L, lines, k) ==
    IF k > Len(lines) THEN L
    ELSE IF ZeroImpedance(lines[k]) THEN NRBuildLilFrom(L, lines, k + 1)
         ELSE NRBuildLilFrom(LilStampLine(L, lines[k]), lines, k + 1)

\* The rows lo..hi of ss one after the other, by halves so that many rows
\* nest shallowly.
RECURSIVE FlattenRange(_, _, _)
FlattenRange(ss, lo, hi) ==
    IF lo > hi THEN << >>
    ELSE IF lo = hi THEN ss[lo]
    ELSE LET mid == (lo + hi) \div 2
         IN  FlattenRange(ss, lo, mid) \o FlattenRange(ss, mid + 1, hi)

Flatten(ss, k) == FlattenRange(ss, k, Len(ss))

\* The number of entries in the rows before row r.
CountBefore(ss, r) == SumRange([k \in 1..Len(ss) |-> Len(ss[k])], 1, r - 1)

\* lil_matrix.tocsr(): the entries row after row (data), their columns
\* (indices), and for each row the count of entries before it (indptr, the
\* total count as its last element).
ToCsr(L) ==
    [indptr  |-> [r \in 1..(Len(L.rows) + 1) |-> CountBefore(L.rows, r)],
     indices |-> Flatten(L.rows, 1),
     data    |-> Flatten(L.data, 1)]

\* csr_matrix.toarray(): entry (i, j) is the stored value of row i with
\* column j, 0 when there is none.
ToArray(C) ==
    LET nb == Len(C.indptr) - 1
        At(i, j) == {k \in (C.indptr[i] + 1)..C.indptr[i + 1] : C.indices[k] = j}
    IN  [i \in 1..nb |-> [j \in 1..nb |->
            IF At(i, j) = {} THEN CZero ELSE C.data[CHOOSE k \in At(i, j) : TRUE]]]

\* if self.use_sparse and nb > 50
SparseBranch(sp, nb) == sp /\ nb > SparseThreshold

\* build_ybus as the constructor argument use_sparse selects it: above 50
\* buses with use_sparse the matrix is built as a lil_matrix and stored as
\* csr_matrix, otherwise it is the numpy array.
BuildYbus(sp, nb, lines) ==
    IF SparseBranch(sp, nb)
    THEN ToCsr(NRBuildLilFrom(LilMatrix(nb), lines, 1))
    ELSE NRBuildYbus(nb, lines)

\* if hasattr(self.Ybus, 'toarray'): Ybus_dense = self.Ybus.toarray()
\* else: Ybus_dense = self.Ybus. The stored matrix has toarray exactly when
\* build_ybus took the sparse branch.
YbusDense(sp, nb, Y) == IF SparseBranch(sp, nb) THEN ToArray(Y) ELSE Y

\* The warnings NRLoadFlow.build_ybus emits: one per zero-impedance line.
NRBuildWarnings(lines) ==
    LET RECURSIVE W(_)
        W(k) == IF k > Len(lines) THEN << >>
                ELSE IF ZeroImpedance(lines[k])
                     THEN <<<<lines[k][1], lines[k][2]>>>> \o W(k + 1)
                     ELSE W(k + 1)
    IN  W(1)

\* GaussSeidel.build_ybus: y = 1 / z is a Python complex division, which
\* raises ZeroDivisionError for z = 0; there is no zero-impedance test.
GSBuildRaises(lines) == \E k \in 1..Len(lines) : ZeroImpedance(lines[k])

RECURSIVE GSBuildFrom(_, _, _)
GSBuildFrom(Y, lines, k) ==
    IF k > Len(lines) THEN Y
    ELSE GSBuildFrom(StampLine(Y, lines[k]), lines, k + 1)

GSBuildYbus(nb, lines) == GSBuildFrom(ZeroYbus(nb), lines, 1)


\* ------------------------------------------------- NRLoadFlow: bus params
\* The sequence 1, 2, ..., n (enumerate).
Indices(n) == [i \in 1..n |-> i]

\* The largest |s[k]| for k in lo..hi, 0 for an empty range.
RECURSIVE MaxAbsRange(_, _, _)
MaxAbsRange(s, lo, hi) ==
    IF lo > hi THEN 0
    ELSE IF lo = hi THEN Abs(s[lo])
    ELSE LET mid == (lo + hi) \div 2
         IN  Max2(MaxAbsRange(s, lo, mid), MaxAbsRange(s, mid + 1, hi))

MaxAbsSeq(s) == MaxAbsRange(s, 1, Len(s))

\* Mutant: every bus is taken for a PQ bus.
ExtractTypesAllPQ(bd) == [i \in 1..Len(bd) |-> 3]

\* bus_data[:, 1].astype(int)
ExtractTypes(bd) == [i \in 1..Len(bd) |-> bd[i].type]

\* A complex number by magnitude and angle, as np.abs and np.angle read it
\* back: magnitude >= 0, angle in (-HalfTurn, HalfTurn], angle 0 for 0.
Polar(m, a) ==
    IF m = 0 THEN <<0, 0>>
    ELSE IF m < 0 THEN <<-m, WrapAngle(a + HalfTurn)>>
    ELSE <<m, WrapAngle(a)>>

\* bus_data[i, 2] * exp(1j * radians(bus_data[i, 3]))
SlackSetpoint(rec) == Polar(rec.vm, Radians(rec.va))

\* complex(0.95, -0.05) read by abs and angle: 0.9513 at -3.01 degrees.
PQStart == Polar(95, -1)

\* extract_bus_params: the initial V
NRInitV(bd) ==
    [i \in 1..Len(bd) |->
        IF bd[i].type = 1 THEN SlackSetpoint(bd[i])
        ELSE IF bd[i].type = 2 THEN Polar(bd[i].vm, 0)
        ELSE PQStart]

P_spec(bd) == [i \in 1..Len(bd) |-> bd[i].PG - bd[i].PL]

Q_spec(bd) == [i \in 1..Len(bd) |-> bd[i].QG - bd[i].QL]

\* ------------------------------------------ power_calculation_vectorized
\* V_mag_i * V_mag_j * Y_mag * cos(Y_angle + V_angle_j - V_angle_i), with
\* Y_mag * cos(Y_angle + d) expanded to G cos d - B sin d for Y = G + jB.
CosTerm(Y, Vp, i, k) ==
    LET d == Vp[k][2] - Vp[i][2]
    IN  FMul(FMul(Vp[i][1], Vp[k][1]),
             FMul(Y[i][k][1], Cos(d)) - FMul(Y[i][k][2], Sin(d)))

\* V_mag_i * V_mag_j * Y_mag * sin(Y_angle + V_angle_j - V_angle_i)
SinTerm(Y, Vp, i, k) ==
    LET d == Vp[k][2] - Vp[i][2]
    IN  FMul(FMul(Vp[i][1], Vp[k][1]),
             FMul(Y[i][k][2], Cos(d)) + FMul(Y[i][k][1], Sin(d)))

\* P = np.sum(cos_terms, axis=1)
PCalc(Y, Vp) ==
    [i \in DOMAIN Vp |-> SumSeq([k \in DOMAIN Vp |-> CosTerm(Y, Vp, i, k)])]

\* Q = -np.sum(sin_terms, axis=1)
QCalc(Y, Vp) ==
    [i \in DOMAIN Vp |-> -SumSeq([k \in DOMAIN Vp |-> SinTerm(Y, Vp, i, k)])]

\* Y_mag[i, k] * np.cos(angle_diff), expanded as in CosTerm
CosCoef(Y, Vp, i, k) ==
    LET d == Vp[k][2] - Vp[i][2]
    IN  FMul(Y[i][k][1], Cos(d)) - FMul(Y[i][k][2], Sin(d))

\* Y_mag[i, k] * np.sin(angle_diff), expanded as in SinTerm
SinCoef(Y, Vp, i, k) ==
    LET d == Vp[k][2] - Vp[i][2]
    IN  FMul(Y[i][k][2], Cos(d)) + FMul(Y[i][k][1], Sin(d))

\* ----------------------------------------------------- bus index lists
\* pq = [i for i, t in enumerate(types) if t == 3]
PQList(ty) == SelectSeq(Indices(Len(ty)), LAMBDA i : ty[i] = 3)

\* pv = [i for i, t in enumerate(types) if t == 2]
PVList(ty) == SelectSeq(Indices(Len(ty)), LAMBDA i : ty[i] = 2)

\* non_slack = pv + pq
NonSlackList(ty) == PVList(ty) \o PQList(ty)

\* Mutant: the first loop takes every bus, the Slack bus included.
PRowListAllBuses(ty) == Indices(Len(ty))

\* The buses of the first loop of calc_power_mismatch, in its order.
PRowList(ty) == SelectSeq(Indices(Len(ty)), LAMBDA i : ty[i] \in {2, 3})

\* calc_power_mismatch
CalcPowerMismatch(Y, Vp, Ps, Qs, ty) ==
    LET P == PCalc(Y, Vp)
        Q == QCalc(Y, Vp)
        prow == PRowList(ty)
        qrow == PQList(ty)
    IN  [k \in 1..Len(prow) |-> Ps[prow[k]] - P[prow[k]]]
        \o [k \in 1..Len(qrow) |-> Qs[qrow[k]] - Q[qrow[k]]]

\* What the k-th entry of the mismatch vector stands for: <<quantity, bus>>.
MismatchLabel(ty, k) ==
    IF k <= Len(PRowList(ty)) THEN <<"P", PRowList(ty)[k]>>
    ELSE <<"Q", PQList(ty)[k - Len(PRowList(ty))]>>

\* ---------------------------------------------- build_jacobian_optimized
\* Jsize = nns + npq
Jsize(ty) == Len(NonSlackList(ty)) + Len(PQList(ty))

\* The equation of row r: rows of J11 and J12 by enumerate(non_slack), rows
\* of J21 and J22 by enumerate(pq) below them.
JacobianRowLabel(ty, r) ==
    IF r <= Len(NonSlackList(ty)) THEN <<"P", NonSlackList(ty)[r]>>
    ELSE <<"Q", PQList(ty)[r - Len(NonSlackList(ty))]>>

\* The unknown of column c: columns of J11 and J21 by enumerate(non_slack),
\* columns of J12 and J22 by enumerate(pq) to their right.
JacobianColLabel(ty, c) ==
    IF c <= Len(NonSlackList(ty)) THEN <<"angle", NonSlackList(ty)[c]>>
    ELSE <<"mag", PQList(ty)[c - Len(NonSlackList(ty))]>>

\* for k in range(n): if k != i and Y_mag[i, k] > 1e-10: sum_val += term(k)
SumOthers(Y, Vp, i, term) ==
    SumSeq([k \in DOMAIN Vp |-> IF k # i /\ Y[i][k] # CZero THEN term[k] ELSE 0])

\* Lines 158-173
J11Entry(Y, Vp, i, j) ==
    IF i = j THEN SumOthers(Y, Vp, i, [k \in DOMAIN Vp |-> SinTerm(Y, Vp, i, k)])
    ELSE IF Y[i][j] # CZero THEN -SinTerm(Y, Vp, i, j)
    ELSE 0

\* Lines 175-192; Y_mag[i, i] * cos(Y_angle[i, i]) is the real part of Y[i][i]
J12Entry(Y, Vp, i, j) ==
    IF i = j THEN 2 * FMul(Vp[i][1], Y[i][i][1])
                  + SumOthers(Y, Vp, i, [k \in DOMAIN Vp |-> FMul(Vp[k][1], CosCoef(Y, Vp, i, k))])
    ELSE IF Y[i][j] # CZero THEN FMul(Vp[i][1], CosCoef(Y, Vp, i, j))
    ELSE 0

\* Lines 194-209
J21Entry(Y, Vp, i, j) ==
    IF i = j THEN -SumOthers(Y, Vp, i, [k \in DOMAIN Vp |-> CosTerm(Y, Vp, i, k)])
    ELSE IF Y[i][j] # CZero THEN CosTerm(Y, Vp, i, j)
    ELSE 0

\* Lines 211-228; Y_mag[i, i] * sin(Y_angle[i, i]) is the imaginary part of Y[i][i]
J22Entry(Y, Vp, i, j) ==
    IF i = j THEN -2 * FMul(Vp[i][1], Y[i][i][2])
                  - SumOthers(Y, Vp, i, [k \in DOMAIN Vp |-> FMul(Vp[k][1], SinCoef(Y, Vp, i, k))])
    ELSE IF Y[i][j] # CZero THEN -FMul(Vp[i][1], SinCoef(Y, Vp, i, j))
    ELSE 0

\* build_jacobian_optimized: the matrix J
Jacobian(Y, Vp, ty) ==
    [r \in 1..Jsize(ty) |->
        [c \in 1..Jsize(ty) |->
            LET row == JacobianRowLabel(ty, r)
                col == JacobianColLabel(ty, c)
            IN  IF row[1] = "P"
                THEN IF col[1] = "angle" THEN J11Entry(Y, Vp, row[2], col[2])
                     ELSE J12Entry(Y, Vp, row[2], col[2])
                ELSE IF col[1] = "angle" THEN J21Entry(Y, Vp, row[2], col[2])
                     ELSE J22Entry(Y, Vp, row[2], col[2])]]

\* max_mis = np.max(np.abs(mismatch))
MaxMis(mismatch) == MaxAbsSeq(mismatch)

\* rms_mis < tol / 10, i.e. mean(mismatch^2) < (tol / 10)^2
RmsBelow(mismatch, t) ==
    100 * SumSeq([k \in DOMAIN mismatch |-> mismatch[k] * mismatch[k]])
        < Len(mismatch) * t * t

\* Mutant: the test on the largest entry alone.
NRConvergedMaxOnly(mismatch, t) == MaxMis(mismatch) < t

\* if max_mis < tol and rms_mis < tol/10
NRConverged(mismatch, t) == MaxMis(mismatch) < t /\ RmsBelow(mismatch, t)

\* ------------------------------------------------------- voltage update
\* step_size
\* Mutant: the full step starts one iteration late.
StepSizeLate(n) == IF n < 4 THEN 80 ELSE 100

StepSize(n) == IF n < 3 THEN 80 ELSE 100

\* Mutant: the new magnitude is taken as computed, without np.clip.
ClipMagNone(x) == x

\* np.clip(x, 0.5, 1.5)
ClipMag(x) == IF x < 50 THEN 50 ELSE IF x > 150 THEN 150 ELSE x

\* The position of bus i in a bus list (each bus is listed once, so the
\* assignments of a loop over the list do not depend on one another).
PlaceIn(buses, i) == CHOOSE k \in 1..Len(buses) : buses[k] = i

\* for idx, i in enumerate(non_slack): V[i] = abs(V[i]) * exp(1j * (angle(V[i]) + step * dX[idx]))
AngleUpdate(Vp, buses, dX, step, idx) ==
    [i \in DOMAIN Vp |->
        IF \E k \in idx..Len(buses) : buses[k] = i
        THEN Polar(Vp[i][1], Vp[i][2] + FMul(step, dX[PlaceIn(buses, i)]))
        ELSE Vp[i]]

\* for idx, i in enumerate(pq): V[i] = clip(abs(V[i]) + step * dX[len(non_slack) + idx]) * exp(1j * angle(V[i]))
MagUpdate(Vp, buses, dX, step, off, idx) ==
    [i \in DOMAIN Vp |->
        IF \E k \in idx..Len(buses) : buses[k] = i
        THEN Polar(ClipMag(Vp[i][1] + FMul(step, dX[off + PlaceIn(buses, i)])), Vp[i][2])
        ELSE Vp[i]]

\* Mutant: the angle loop runs over every bus, the Slack bus included.
NRUpdateAllBuses(Vp, ty, dX, n) ==
    LET all == Indices(Len(ty))
        dXall == [k \in 1..(2 * Len(ty)) |-> dX[((k - 1) % Len(dX)) + 1]]
        V1 == AngleUpdate(Vp, all, dXall, StepSize(n), 1)
    IN  MagUpdate(V1, PQList(ty), dXall, StepSize(n), Len(all), 1)

\* The unknown the k-th component of dX is added to: dX[idx] to the angle
\* of non_slack[idx], dX[len(non_slack) + idx] to the magnitude of pq[idx].
UpdateLabel(ty, k) ==
    IF k <= Len(NonSlackList(ty)) THEN <<"angle", NonSlackList(ty)[k]>>
    ELSE <<"mag", PQList(ty)[k - Len(NonSlackList(ty))]>>

\* Lines 292-319 of solve: the update of V by the correction dX in iteration n.
NRUpdate(Vp, ty, dX, n) ==
    LET V1 == AngleUpdate(Vp, NonSlackList(ty), dX, StepSize(n), 1)
    IN  MagUpdate(V1, PQList(ty), dX, StepSize(n), Len(NonSlackList(ty)), 1)


\* ------------------------------------------------------------ the inputs
\* Bus rows: the Slack, PV and PQ rows of the 3-bus example of the source,
\* and a second Slack row with a set-point angle of 270 degrees.
BusKinds ==
    { BusRec(1, 105, 0, 0, 0, 0, 0),
      BusRec(1, 100, 270, 0, 0, 0, 0),
      BusRec(2, 103, 0, 50, 0, 0, 0),
      BusRec(3, 100, 0, 0, 0, 80, 40) }

\* The 3-bus example as a table of 10 columns, the PV bus with reactive
\* limits of -0.01 and 0.01 p.u.
LimitTable ==
    << BusRecQ(1, 105, 0, 0, 0, 0, 0, 0, 0),
       BusRecQ(2, 103, 0, 50, 0, 0, 0, -1, 1),
       BusRecQ(3, 100, 0, 0, 0, 80, 40, 0, 0) >>

BusTables(nb) == [1..nb -> BusKinds] \cup (IF nb = 3 THEN {LimitTable} ELSE {})

\* Line lists: none, the lines of the 3-bus example, a self-loop, a list
\* with a zero-impedance line.
CandidateLines ==
    { << >>,
      <<LineRec(1, 1, 2, 6, 6)>>,
      <<LineRec(1, 2, 8, 24, 5)>>,
      <<LineRec(1, 2, 2, 6, 6), LineRec(1, 3, 8, 24, 5), LineRec(2, 3, 6, 18, 4)>>,
      <<LineRec(1, 2, 2, 6, 6), LineRec(2, 3, 0, 0, 4)>> }

NetLines(nb) ==
    { ls \in CandidateLines : \A k \in 1..Len(ls) : ls[k][1] <= nb /\ ls[k][2] <= nb }

\* tol: the default 1e-6 (on the grid the same test as 0.01) and 0.60.
TolDefault == 1

Tols == {TolDefault, 60}

\* The corrections np.linalg.solve may return: angle components da, magnitude
\* components dm (dX has len(non_slack) angle entries, then len(pq) magnitude
\* entries), as pairs <<da, dm>>.
DXSteps == { <<-3, -11>>, <<5, 100>> }

DXVector(ty, d) ==
    [k \in 1..(Len(NonSlackList(ty)) + Len(PQList(ty))) |->
        IF k <= Len(NonSlackList(ty)) THEN d[1] ELSE d[2]]

Init ==
    /\ \E nb \in 1..MaxBuses :
          /\ bus_data \in BusTables(nb)
          /\ line_data \in NetLines(nb)
    /\ method \in {"NR", "GS", "FD"}
    /\ use_sparse = TRUE
    /\ caller = "none"
    /\ pc = "idle"
    /\ Ybus = << >>
    /\ warned = << >>
    /\ cond_warned = << >>
    /\ types = << >>
    /\ V = << >>
    /\ it = 0
    /\ converged = FALSE
    /\ max_mis = Unbound
    /\ iter_data = << >>
    /\ tol = 0
    /\ max_iter = 0
    /\ alpha = 0
    /\ outcome = "none"
    /\ ret = NoRet
    /\ raised = "none"

\* ------------------------------------------------------ NRLoadFlow.solve
\* Lines 232-239: build_ybus, extract_bus_params, iteration_data = [],
\* converged = False.
NREnter(t, mi, who) ==
    /\ pc = "idle"
    /\ method = "NR"
    /\ caller' = who
    /\ tol' = t
    /\ max_iter' = mi
    /\ Ybus' = BuildYbus(use_sparse, NB, line_data)
    /\ warned' = warned \o NRBuildWarnings(line_data)
    /\ types' = ExtractTypes(bus_data)
    /\ V' = NRInitV(bus_data)
    /\ iter_data' = << >>
    /\ converged' = FALSE
    /\ it' = 0
    /\ pc' = "loop"
    /\ UNCHANGED <<bus_data, line_data, method, use_sparse, cond_warned, max_mis, alpha, outcome, ret,
                   raised>>

\* A direct call solve(tol, max_iter).
NRSolve == \E t \in Tols, mi \in 0..MaxIter : NREnter(t, mi, "direct")

\* for it in range(max_iter)
NRLoopRunsInclusive(n, mi) == n <= mi

NRLoopRuns(n, mi) == n < mi

\* The record appended to iteration_data.
NRRecord(n, mm) == [Iteration |-> n + 1, MaxMismatch |-> mm]

\* Mutant: the handler falls through to the update with a stale correction.
NRSingularFallThrough ==
    /\ outcome' = "singular"
    /\ pc' = "exit"
    /\ V' = NRUpdate(V, types, DXVector(types, <<5, 100>>), it)
    /\ UNCHANGED <<it, converged>>

\* except np.linalg.LinAlgError: print(...); break   (lines 288-290)
NRSingularBreak ==
    /\ outcome' = "singular"
    /\ pc' = "exit"
    /\ UNCHANGED <<V, it, converged>>

\* if np.linalg.cond(J) > 1e12: print("Warning: Jacobian is ill-conditioned
\* at iteration {it+1}"); ill tells whether the condition number of the pass
\* is above 1e12.
CondWarning(ill, n) == IF ill THEN <<n + 1>> ELSE << >>

\* Mutant: after the warning the correction is dropped.
NRApplyUnlessWarned(ill) ==
    /\ cond_warned' = cond_warned \o CondWarning(ill, it)
    /\ \E d \in DXSteps :
          V' = IF ill THEN V ELSE NRUpdate(V, types, DXVector(types, d), it)
    /\ it' = it + 1
    /\ UNCHANGED <<converged, outcome, pc>>

\* Lines 279-319 when np.linalg.solve returns dX: the warning if the
\* condition number is above 1e12, then the update of V and the next pass.
NRApply(ill) ==
    /\ cond_warned' = cond_warned \o CondWarning(ill, it)
    /\ \E d \in DXSteps : V' = NRUpdate(V, types, DXVector(types, d), it)
    /\ it' = it + 1
    /\ UNCHANGED <<converged, outcome, pc>>

\* One pass of the loop body, lines 242-319, for the passes below cap whose
\* Jacobian has a condition number above 1e12 (TRUE) or not (FALSE) as conds
\* allows. A singular Jacobian has the condition number inf: np.linalg.cond
\* returns it and the warning is printed before np.linalg.solve raises.
NRPass(cap, conds) ==
    /\ pc = "loop"
    /\ method = "NR"
    /\ NRLoopRuns(it, max_iter)
    /\ it < cap
    /\ LET mismatch == CalcPowerMismatch(YbusDense(use_sparse, NB, Ybus), V,
                                         P_spec(bus_data), Q_spec(bus_data), types)
           mm == MaxMis(mismatch)
       IN  \/ \* len(mismatch) == 0: only Slack buses
              /\ Len(mismatch) = 0
              /\ converged' = TRUE
              /\ outcome' = "empty"
              /\ pc' = "exit"
              /\ UNCHANGED <<V, it, max_mis, iter_data, cond_warned>>
           \/ \* the convergence test passes
              /\ Len(mismatch) > 0
              /\ NRConverged(mismatch, tol)
              /\ max_mis' = mm
              /\ iter_data' = Append(iter_data, NRRecord(it, mm))
              /\ converged' = TRUE
              /\ outcome' = "converged"
              /\ pc' = "exit"
              /\ UNCHANGED <<V, it, cond_warned>>
           \/ \* np.linalg.cond / np.linalg.solve raise LinAlgError
              /\ Len(mismatch) > 0
              /\ ~NRConverged(mismatch, tol)
              /\ max_mis' = mm
              /\ iter_data' = Append(iter_data, NRRecord(it, mm))
              /\ \E ill \in conds : cond_warned' = cond_warned \o CondWarning(ill, it)
              /\ NRSingularBreak
           \/ \* np.linalg.solve returns dX: update V, next pass
              /\ Len(mismatch) > 0
              /\ ~NRConverged(mismatch, tol)
              /\ max_mis' = mm
              /\ iter_data' = Append(iter_data, NRRecord(it, mm))
              /\ \E ill \in conds : NRApply(ill)
    /\ UNCHANGED <<bus_data, line_data, method, use_sparse, caller, Ybus, warned, types,
                   tol, max_iter, alpha, ret, raised>>

\* The passes of a solve whose Jacobians are well conditioned.
NRIterate == NRPass(MaxIter, {FALSE})

\* range(max_iter) is exhausted: the loop ends without a break.
NRExhaust ==
    /\ pc = "loop"
    /\ method = "NR"
    /\ ~NRLoopRuns(it, max_iter)
    /\ outcome' = "exhausted"
    /\ pc' = "exit"
    /\ UNCHANGED <<bus_data, line_data, method, use_sparse, caller, Ybus, warned, cond_warned, types, V, it,
                   converged, max_mis, iter_data, tol, max_iter, alpha, ret, raised>>

\* Lines 321-327: the warning (which formats max_mis), V_final, iter_data,
\* return V, iteration_data.
NRFinish ==
    /\ pc = "exit"
    /\ method = "NR"
    /\ IF ~converged /\ max_mis = Unbound
       THEN /\ raised' = "UnboundLocalError"
            /\ pc' = "raised"
            /\ UNCHANGED ret
       ELSE /\ ret' = [V |-> V, iter_data |-> iter_data]
            /\ pc' = "returned"
            /\ UNCHANGED raised
    /\ UNCHANGED <<bus_data, line_data, method, use_sparse, caller, Ybus, warned, cond_warned, types, V, it,
                   converged, max_mis, iter_data, tol, max_iter, alpha, outcome>>

\* ------------------------------------------------------ GaussSeidel.solve
\* abs(z), rounded down, for a complex z that is not NaN.
CAbs(z) ==
    LET a == Abs(z[1])
        b == Abs(z[2])
    IN  CHOOSE r \in Max2(a, b)..(a + b) : r * r <= CNorm2(z) /\ CNorm2(z) < (r + 1) * (r + 1)

\* abs(z)^2 as the comparisons of the sweep see it: a NaN compares False with
\* everything, which max(m, nan) and nan < tol turn into "not greater".
AbsSq(z) == IF IsNaN(z) THEN -1 ELSE CNorm2(z)

\* bus_data[i, 2] * exp(1j * radians(bus_data[i, 3])) in rectangular form
GSSlackSetpoint(rec) ==
    <<FMul(rec.vm, Cos(Radians(rec.va))), FMul(rec.vm, Sin(Radians(rec.va)))>>

\* complex(0.95, -0.05)
GSStart == <<95, -5>>

\* Lines 35-41: the initial V
GSInitV(bd) ==
    [i \in 1..Len(bd) |-> IF bd[i].type = 1 THEN GSSlackSetpoint(bd[i]) ELSE GSStart]

\* Lines 49-55 and 98: np.clip(Qi, Qmin[i], Qmax[i]); a bus table of 8
\* columns has no limits (-inf, +inf), so the clip returns Qi.
GSClipQ(q, rec) ==
    IF ~HasLimits(rec) THEN q
    ELSE IF q < rec.Qmin THEN rec.Qmin
    ELSE IF q > rec.Qmax THEN rec.Qmax
    ELSE q

\* sumYV: sum of Ybus[i, k] * V[k] over k != i
RECURSIVE SumYV(_, _, _, _)
SumYV(Y, Vr, i, k) ==
    IF k > Len(Vr) THEN CZero
    ELSE IF k = i THEN SumYV(Y, Vr, i, k + 1)
         ELSE CAdd(CMul(Y[i][k], Vr[k]), SumYV(Y, Vr, i, k + 1))

\* I_inj = np.dot(Ybus[i, :], V)
Inject(Y, Vr, i) == CAdd(CMul(Y[i][i], Vr[i]), SumYV(Y, Vr, i, 1))

\* S_calc = V[i] * I_inj.conjugate()
SCalc(Y, Vr, i) == CMul(Vr[i], CConj(Inject(Y, Vr, i)))

\* V_new = (1 / Ybus[i, i]) * ((S.conjugate() / V[i].conjugate()) - sumYV).
\* The product with the reciprocal is taken as one division, which keeps the
\* resolution of the grid; a zero Ybus[i, i] gives NaN either way.
GSFormula(Y, Vr, i, S, vi) ==
    CDiv(CSub(CDiv(CConj(S), CConj(vi)), SumYV(Y, Vr, i, 1)), Y[i][i])

\* V[i] = alpha * V_new + (1.0 - alpha) * V[i]
Blend(a, vnew, vold) == CAdd(CScale(a, vnew), CScale(Scale - a, vold))

\* Lines 78-88: the new V[i] of a PQ bus
GSUpdatePQ(Y, Vr, i, rec, a) ==
    LET S == <<rec.PG - rec.PL, rec.QG - rec.QL>>
        vi == IF Vr[i] = CZero THEN GSStart ELSE Vr[i]
    IN  Blend(a, GSFormula(Y, Vr, i, S, vi), vi)

\* if abs(V_new) > 1e-12: V_new = bus_data[i, 2] * (V_new / abs(V_new))
Renormalise(vm, vnew) ==
    IF IsNaN(vnew) \/ vnew = CZero THEN vnew
    ELSE <<FMul(vm, RDiv(vnew[1] * Scale, CAbs(vnew))), FMul(vm, RDiv(vnew[2] * Scale, CAbs(vnew)))>>

\* Lines 90-113: the new V[i] of a PV bus
GSUpdatePV(Y, Vr, i, rec, a) ==
    LET sc == SCalc(Y, Vr, i)
        vi == IF Vr[i] = CZero THEN <<rec.vm, 0>> ELSE Vr[i]
        S == IF IsNaN(sc) THEN NaN ELSE <<rec.PG - rec.PL, GSClipQ(sc[2], rec)>>
    IN  Blend(a, Renormalise(rec.vm, GSFormula(Y, Vr, i, S, vi)), vi)

\* Lines 118-128: the power mismatch of bus i, for monitoring
GSPowerMis(Y, Vr, i, rec) ==
    LET sc == SCalc(Y, Vr, i)
        pm == Abs((rec.PG - rec.PL) - sc[1])
        qm == Abs((rec.QG - rec.QL) - sc[2])
    IN  IF IsNaN(sc) THEN -1
        ELSE IF rec.type = 3 THEN Max2(pm, qm)
        ELSE IF rec.type = 2 THEN pm
        ELSE -1

\* Mutant: the sweep updates the Slack bus like a PQ bus.
GSBusStepNoSkip(Y, bd, a, Vprev, st, i) ==
    LET Vn == [st.V EXCEPT ![i] = IF bd[i].type = 2 THEN GSUpdatePV(Y, st.V, i, bd[i], a)
                                  ELSE GSUpdatePQ(Y, st.V, i, bd[i], a)]
    IN  [V |-> Vn,
         max_mis |-> Max2(st.max_mis, AbsSq(CSub(Vn[i], Vprev[i]))),
         max_power_mis |-> Max2(st.max_power_mis, GSPowerMis(Y, Vn, i, bd[i]))]

\* Mutant: a Jacobi update, every bus computed from the copy V_prev.
GSBusStepFromCopy(Y, bd, a, Vprev, st, i) ==
    IF bd[i].type = 1 THEN st
    ELSE LET Vn == [st.V EXCEPT ![i] = IF bd[i].type = 3 THEN GSUpdatePQ(Y, Vprev, i, bd[i], a)
                                       ELSE GSUpdatePV(Y, Vprev, i, bd[i], a)]
         IN  [V |-> Vn,
              max_mis |-> Max2(st.max_mis, AbsSq(CSub(Vn[i], Vprev[i]))),
              max_power_mis |-> Max2(st.max_power_mis, GSPowerMis(Y, Vn, i, bd[i]))]

\* Lines 67-128: the body of the inner loop for bus i; st is the state of
\* the sweep before it: V, max_mis (squared), max_power_mis.
GSBusStep(Y, bd, a, Vprev, st, i) ==
    IF bd[i].type = 1 THEN st
    ELSE LET Vn == [st.V EXCEPT ![i] = IF bd[i].type = 3 THEN GSUpdatePQ(Y, st.V, i, bd[i], a)
                                       ELSE GSUpdatePV(Y, st.V, i, bd[i], a)]
         IN  [V |-> Vn,
              max_mis |-> Max2(st.max_mis, AbsSq(CSub(Vn[i], Vprev[i]))),
              max_power_mis |-> Max2(st.max_power_mis, GSPowerMis(Y, Vn, i, bd[i]))]

\* for i in range(nb), in place, from bus i on
RECURSIVE GSSweepFrom(_, _, _, _, _, _)
GSSweepFrom(Y, bd, a, Vprev, st, i) ==
    IF i > Len(bd) THEN st
    ELSE GSSweepFrom(Y, bd, a, Vprev, GSBusStep(Y, bd, a, Vprev, st, i), i + 1)

\* One sweep from V: V_prev = V.copy(), max_mis = 0.0, max_power_mis = 0.0
GSSweepResult(Y, bd, a, Vr) ==
    GSSweepFrom(Y, bd, a, Vr, [V |-> Vr, max_mis |-> 0, max_power_mis |-> 0], 1)

\* if max_mis < tol (max_mis is kept squared)
GSConverged(mmsq, t) == mmsq < t * t

GSRecord(n, st) ==
    [Iteration |-> n + 1, MaxVoltageMismatchSq |-> st.max_mis,
     MaxPowerMismatch |-> st.max_power_mis]

Alphas == {100, 50}

\* Lines 29-60 of solve; an exception of build_ybus is re-raised as
\* RuntimeError by the except clause of lines 148-149.
GSEnter(t, mi, a, who) ==
    /\ pc = "idle"
    /\ method = "GS"
    /\ caller' = who
    /\ tol' = t
    /\ max_iter' = mi
    /\ alpha' = a
    /\ IF GSBuildRaises(line_data)
       THEN /\ raised' = "RuntimeError"
            /\ pc' = "raised"
            /\ UNCHANGED <<Ybus, types, V, converged, it>>
       ELSE /\ Ybus' = GSBuildYbus(NB, line_data)
            /\ types' = ExtractTypes(bus_data)
            /\ V' = GSInitV(bus_data)
            /\ converged' = FALSE
            /\ it' = 0
            /\ pc' = "loop"
            /\ UNCHANGED raised
    /\ UNCHANGED <<bus_data, line_data, method, use_sparse, warned, cond_warned, max_mis, iter_data, outcome, ret>>

GSSolve == \E t \in Tols, mi \in 0..MaxIter, a \in Alphas : GSEnter(t, mi, a, "direct")

\* for it in range(max_iter)
GSLoopRuns(n, mi) == n < mi

\* One sweep, lines 63-140.
GSSweep ==
    /\ pc = "loop"
    /\ method = "GS"
    /\ GSLoopRuns(it, max_iter)
    /\ it < MaxIter
    /\ LET st == GSSweepResult(Ybus, bus_data, alpha, V)
       IN  /\ V' = st.V
           /\ iter_data' = Append(iter_data, GSRecord(it, st))
           /\ IF GSConverged(st.max_mis, tol)
              THEN /\ converged' = TRUE
                   /\ outcome' = "converged"
                   /\ pc' = "exit"
                   /\ UNCHANGED it
              ELSE /\ it' = it + 1
                   /\ UNCHANGED <<converged, outcome, pc>>
    /\ UNCHANGED <<bus_data, line_data, method, use_sparse, caller, Ybus, warned, cond_warned, types,
                   max_mis, tol, max_iter, alpha, ret, raised>>

GSExhaust ==
    /\ pc = "loop"
    /\ method = "GS"
    /\ ~GSLoopRuns(it, max_iter)
    /\ outcome' = "exhausted"
    /\ pc' = "exit"
    /\ UNCHANGED <<bus_data, line_data, method, use_sparse, caller, Ybus, warned, cond_warned, types, V, it,
                   converged, max_mis, iter_data, tol, max_iter, alpha, ret, raised>>

\* Lines 142-146: the warning, V_final, return V, self.iter_data.
GSFinish ==
    /\ pc = "exit"
    /\ method = "GS"
    /\ ret' = [V |-> V, iter_data |-> iter_data]
    /\ pc' = "returned"
    /\ UNCHANGED <<bus_data, line_data, method, use_sparse, caller, Ybus, warned, cond_warned, types, V, it,
                   converged, max_mis, iter_data, tol, max_iter, alpha, outcome, raised>>

\* --------------------------------------------------------- FastDecoupled
\* The class defines __init__ only (build_ybus, solve and the rest are
\* commented out), so the attribute lookup of a call solve(...) raises
\* AttributeError before any argument is bound.
FDSolve ==
    /\ pc = "idle"
    /\ method = "FD"
    /\ caller' = "direct"
    /\ raised' = "AttributeError"
    /\ pc' = "raised"
    /\ UNCHANGED <<bus_data, line_data, method, use_sparse, Ybus, warned, cond_warned, types, V, it, converged,
                   max_mis, iter_data, tol, max_iter, alpha, outcome, ret>>

\* ------------------------------------- ModernLoadFlowGUI.run_analysis
NRDefaultMaxIter == 20

GSDefaultMaxIter == 100

GSDefaultAlpha == 100

\* slack_count = sum(1 for bus in self.bus_data if int(bus[1]) == 1)
SlackCount(bd) == Cardinality({i \in 1..Len(bd) : bd[i].type = 1})

\* Lines 1285-1301: the input is refused with a message box.
GUIRejects == Len(bus_data) = 0 \/ Len(line_data) = 0 \/ SlackCount(bus_data) # 1

\* self.method_combo.addItems(["Newton-Raphson", "Gauss-Seidel"])
ComboMethods == {"NR", "GS"}

\* run_analysis refuses the input: nothing is built, no solver is called.
GUIReject ==
    /\ pc = "idle"
    /\ method \in ComboMethods
    /\ GUIRejects
    /\ caller' = "gui"
    /\ pc' = "rejected"
    /\ UNCHANGED <<bus_data, line_data, method, use_sparse, Ybus, warned, cond_warned, types, V, it, converged,
                   max_mis, iter_data, tol, max_iter, alpha, outcome, ret, raised>>

\* run_analysis builds the solver the method combo names and calls
\* solver.solve() with the defaults of its signature.
GUIRunAnalysis ==
    /\ ~GUIRejects
    /\ \/ NREnter(TolDefault, NRDefaultMaxIter, "gui")
       \/ GSEnter(TolDefault, GSDefaultMaxIter, GSDefaultAlpha, "gui")

Next ==
    \/ NRSolve
    \/ NRIterate
    \/ NRExhaust
    \/ NRFinish
    \/ GSSolve
    \/ GSSweep
    \/ GSExhaust
    \/ GSFinish
    \/ FDSolve
    \/ GUIReject
    \/ GUIRunAnalysis

Spec == Init /\ [][Next]_vars

\* ------------------------------------------- build_ybus called on its own
\* Lines over every ordered pair of buses (self-loops included) with the
\* impedances of the example, and zero-impedance lines with and without shunt.
LineParamsY == { <<2, 6, 6>>, <<8, 24, 5>>, <<0, 0, 0>>, <<0, 0, 4>> }

LinesY(nb) == { LineRec(i, j, p[1], p[2], p[3]) : i \in 1..nb, j \in 1..nb, p \in LineParamsY }

LineListsY(nb) == UNION { [1..n -> LinesY(nb)] : n \in 0..MaxLinesY }

InitY ==
    /\ \E nb \in 1..MaxBuses :
          /\ bus_data = [i \in 1..nb |-> BusRec(3, 100, 0, 0, 0, 80, 40)]
          /\ line_data \in LineListsY(nb)
    /\ method \in {"NR", "GS"}
    /\ use_sparse = TRUE
    /\ caller = "none"
    /\ pc = "idle"
    /\ Ybus = << >>
    /\ warned = << >>
    /\ cond_warned = << >>
    /\ types = << >>
    /\ V = << >>
    /\ it = 0
    /\ converged = FALSE
    /\ max_mis = Unbound
    /\ iter_data = << >>
    /\ tol = 0
    /\ max_iter = 0
    /\ alpha = 0
    /\ outcome = "none"
    /\ ret = NoRet
    /\ raised = "none"

\* NRLoadFlow.build_ybus()
NRBuild ==
    /\ pc = "idle"
    /\ method = "NR"
    /\ caller' = "direct"
    /\ Ybus' = BuildYbus(use_sparse, NB, line_data)
    /\ warned' = warned \o NRBuildWarnings(line_data)
    /\ pc' = "built"
    /\ UNCHANGED <<bus_data, line_data, method, use_sparse, cond_warned, types, V, it, converged,
                   max_mis, iter_data, tol, max_iter, alpha, outcome, ret, raised>>

\* GaussSeidel.build_ybus()
GSBuild ==
    /\ pc = "idle"
    /\ method = "GS"
    /\ caller' = "direct"
    /\ IF GSBuildRaises(line_data)
       THEN /\ raised' = "ZeroDivisionError"
            /\ pc' = "raised"
            /\ UNCHANGED Ybus
       ELSE /\ Ybus' = GSBuildYbus(NB, line_data)
            /\ pc' = "built"
            /\ UNCHANGED raised
    /\ UNCHANGED <<bus_data, line_data, method, use_sparse, warned, cond_warned, types, V, it, converged, max_mis,
                   iter_data, tol, max_iter, alpha, outcome, ret>>

NextY ==
    \/ NRBuild
    \/ GSBuild

SpecY == InitY /\ [][NextY]_vars

\* ------------------------------------ solve followed through longer runs
\* The state of an instance NRLoadFlow(bus_data, line_data) or
\* GaussSeidel(bus_data, line_data) right after construction.
FreshInstance ==
    /\ caller = "none"
    /\ pc = "idle"
    /\ Ybus = << >>
    /\ warned = << >>
    /\ cond_warned = << >>
    /\ types = << >>
    /\ V = << >>
    /\ it = 0
    /\ converged = FALSE
    /\ max_mis = Unbound
    /\ iter_data = << >>
    /\ tol = 0
    /\ max_iter = 0
    /\ alpha = 0
    /\ outcome = "none"
    /\ ret = NoRet
    /\ raised = "none"

\* Passes followed in a long solve.
MaxIterN == 4

\* A Slack bus alone, and a Slack bus with the PQ or the PV bus of the example.
TablesN ==
    { <<BusRec(1, 105, 0, 0, 0, 0, 0)>>,
      <<BusRec(1, 105, 0, 0, 0, 0, 0), BusRec(3, 100, 0, 0, 0, 80, 40)>>,
      <<BusRec(1, 105, 0, 0, 0, 0, 0), BusRec(2, 103, 0, 50, 0, 0, 0)>> }

InitN ==
    /\ bus_data \in TablesN
    /\ line_data \in NetLines(Len(bus_data))
    /\ method = "NR"
    /\ use_sparse = TRUE
    /\ FreshInstance

\* A direct call solve(tol, max_iter) with max_iter up to MaxIterN.
NRSolveN == \E t \in Tols, mi \in 0..MaxIterN : NREnter(t, mi, "direct")

\* The passes of a solve, well and ill conditioned.
NRIterateN == NRPass(MaxIterN, BOOLEAN)

NextN ==
    \/ NRSolveN
    \/ NRIterateN
    \/ NRExhaust
    \/ NRFinish

SpecN == InitN /\ [][NextN]_vars

\* ------------------------------------------ solve called more than once
\* Records self.iter_data may hold when solve is called again.
MaxTraceR == 3

\* solve has returned and the caller goes on: the frame of the call, with
\* its arguments and locals, is gone; the attributes of the instance
\* (self.Ybus, self.iter_data) and the value the caller received stay.
CallReturns ==
    /\ pc = "returned"
    /\ Len(iter_data) < MaxTraceR
    /\ pc' = "idle"
    /\ caller' = "none"
    /\ types' = << >>
    /\ V' = << >>
    /\ it' = 0
    /\ converged' = FALSE
    /\ max_mis' = Unbound
    /\ tol' = 0
    /\ max_iter' = 0
    /\ alpha' = 0
    /\ outcome' = "none"
    /\ UNCHANGED <<bus_data, line_data, method, use_sparse, Ybus, warned, cond_warned, iter_data, ret,
                   raised>>

InitR ==
    /\ bus_data \in TablesN
    /\ line_data \in NetLines(Len(bus_data))
    /\ method \in {"NR", "GS"}
    /\ use_sparse = TRUE
    /\ FreshInstance

NextR ==
    \/ NRSolve
    \/ NRIterate
    \/ NRExhaust
    \/ NRFinish
    \/ GSSolve
    \/ GSSweep
    \/ GSExhaust
    \/ GSFinish
    \/ CallReturns

SpecR == InitR /\ [][NextR]_vars

\* ------------------------------------ networks around the sparse threshold
MaxBusesS == 51

MaxIterS == 1

\* A bus table of nb rows: the Slack bus, the PV bus, then PQ buses, each
\* with the values of the 3-bus example.
TableS(nb) ==
    [i \in 1..nb |->
        IF i = 1 THEN BusRec(1, 105, 0, 0, 0, 0, 0)
        ELSE IF i = 2 THEN BusRec(2, 103, 0, 50, 0, 0, 0)
        ELSE BusRec(3, 100, 0, 0, 0, 80, 40)]

\* Line lists over nb buses: none, one line, a ring through the last bus,
\* parallel lines in both directions, lines entered from the last column
\* down, a self-loop at the last bus, a list with a zero-impedance line.
LinesS(nb) ==
    { << >>,
      <<LineRec(1, 2, 2, 6, 6)>>,
      <<LineRec(1, 2, 2, 6, 6), LineRec(2, nb, 8, 24, 5), LineRec(nb, 1, 6, 18, 4)>>,
      <<LineRec(1, 2, 2, 6, 6), LineRec(2, 1, 8, 24, 5)>>,
      <<LineRec(1, nb, 2, 6, 6), LineRec(1, 3, 8, 24, 5), LineRec(1, 2, 6, 18, 4)>>,
      <<LineRec(nb, nb, 2, 6, 6)>>,
      <<LineRec(1, 2, 2, 6, 6), LineRec(2, 3, 0, 0, 4)>> }

InitS ==
    /\ \E nb \in SparseThreshold..MaxBusesS :
          /\ bus_data = TableS(nb)
          /\ line_data \in LinesS(nb)
    /\ method = "NR"
    /\ use_sparse \in BOOLEAN
    /\ FreshInstance

\* A direct call solve(max_iter = mi) with max_iter up to MaxIterS.
NRSolveS == \E mi \in 0..MaxIterS : NREnter(TolDefault, mi, "direct")

NRIterateS == NRPass(MaxIterS, {FALSE})

NextS ==
    \/ NRSolveS
    \/ NRIterateS
    \/ NRExhaust
    \/ NRFinish

SpecS == InitS /\ [][NextS]_vars

\* ------------------------- ModernLoadFlowGUI: the bus and the line table
MaxBusNum == 3

MaxLinesG == 2

\* BusDialog.get_data: the bus number typed in the dialog (column 0) and the
\* type picked in the combo; the other fields at the values the dialog
\* opens with (|V| 1.0, the rest 0.0).
GuiBus(num, t) ==
    [num |-> num, type |-> t, vm |-> 100, va |-> 0, PG |-> 0, QG |-> 0, PL |-> 0, QL |-> 0]

\* LineDialog.get_data: from and to picked in the combos, r typed, x and b
\* at the values the dialog opens with (0.1 and 0.0).
GuiLine(f, t, r) == LineRec(f, t, r, 10, 0)

\* The values typed for r: the dialog's 0.01 and 0.02.
GuiLineRs == {1, 2}

\* bus_numbers = [bus[0] for bus in self.bus_data]
BusNumbers(bd) == [k \in 1..Len(bd) |-> bd[k].num]

HasBusNumber(bd, n) == \E k \in 1..Len(bd) : bd[k].num = n

\* add_bus: a bus number that exists is refused, another row is appended.
AddBus ==
    /\ pc = "idle"
    /\ Len(bus_data) < MaxBusNum
    /\ \E n \in 1..MaxBusNum, t \in 1..3 :
          /\ ~HasBusNumber(bus_data, n)
          /\ bus_data' = Append(bus_data, GuiBus(n, t))
    /\ UNCHANGED <<line_data, method, use_sparse, caller, pc, Ybus, warned, cond_warned,
                   types, V, it, converged, max_mis, iter_data, tol, max_iter, alpha,
                   outcome, ret, raised>>

\* edit_bus: the dialog shows the row with the bus number read-only; the
\* row is replaced by what the dialog returns.
EditBus ==
    /\ pc = "idle"
    /\ \E row \in 1..Len(bus_data), t \in 1..3 :
          bus_data' = [bus_data EXCEPT ![row] = GuiBus(bus_data[row].num, t)]
    /\ UNCHANGED <<line_data, method, use_sparse, caller, pc, Ybus, warned, cond_warned,
                   types, V, it, converged, max_mis, iter_data, tol, max_iter, alpha,
                   outcome, ret, raised>>

\* delete_bus: del self.bus_data[current_row]; the line table is not
\* touched.
DeleteBus ==
    /\ pc = "idle"
    /\ \E row \in 1..Len(bus_data) : bus_data' = RemoveAt(bus_data, row)
    /\ UNCHANGED <<line_data, method, use_sparse, caller, pc, Ybus, warned, cond_warned,
                   types, V, it, converged, max_mis, iter_data, tol, max_iter, alpha,
                   outcome, ret, raised>>

\* clear_buses: self.bus_data.clear(); the line table is not touched.
ClearBuses ==
    /\ pc = "idle"
    /\ bus_data # << >>
    /\ bus_data' = << >>
    /\ UNCHANGED <<line_data, method, use_sparse, caller, pc, Ybus, warned, cond_warned,
                   types, V, it, converged, max_mis, iter_data, tol, max_iter, alpha,
                   outcome, ret, raised>>

\* Whether the line table holds a line between a and b, in either direction.
HasLine(ld, a, b) ==
    \E k \in 1..Len(ld) : (ld[k][1] = a /\ ld[k][2] = b) \/ (ld[k][1] = b /\ ld[k][2] = a)

\* add_line: from and to are picked among the bus numbers of the bus table;
\* a line that exists in either direction and a line from a bus to itself
\* are refused.
AddLine ==
    /\ pc = "idle"
    /\ bus_data # << >>
    /\ Len(line_data) < MaxLinesG
    /\ \E kf \in 1..Len(bus_data), kt \in 1..Len(bus_data), r \in GuiLineRs :
       LET f == BusNumbers(bus_data)[kf]
           t == BusNumbers(bus_data)[kt]
       IN /\ ~HasLine(line_data, f, t)
          /\ f # t
          /\ line_data' = Append(line_data, GuiLine(f, t, r))
    /\ UNCHANGED <<bus_data, method, use_sparse, caller, pc, Ybus, warned, cond_warned,
                   types, V, it, converged, max_mis, iter_data, tol, max_iter, alpha,
                   outcome, ret, raised>>

\* The current text of a combo filled with the bus numbers after
\* setCurrentText(n): n if it is among them, the first item otherwise.
ComboText(bd, n) == IF HasBusNumber(bd, n) THEN n ELSE BusNumbers(bd)[1]

\* edit_line: the dialog shows the row with both combos disabled; the row is
\* replaced by what the dialog returns, without the tests of add_line. With
\* an empty bus table the combos are empty and get_data returns None.
EditLine ==
    /\ pc = "idle"
    /\ bus_data # << >>
    /\ \E row \in 1..Len(line_data), r \in GuiLineRs :
          line_data' = [line_data EXCEPT ![row] =
                           GuiLine(ComboText(bus_data, line_data[row][1]),
                                   ComboText(bus_data, line_data[row][2]), r)]
    /\ UNCHANGED <<bus_data, method, use_sparse, caller, pc, Ybus, warned, cond_warned,
                   types, V, it, converged, max_mis, iter_data, tol, max_iter, alpha,
                   outcome, ret, raised>>

\* delete_line: del self.line_data[current_row]
DeleteLine ==
    /\ pc = "idle"
    /\ \E row \in 1..Len(line_data) : line_data' = RemoveAt(line_data, row)
    /\ UNCHANGED <<bus_data, method, use_sparse, caller, pc, Ybus, warned, cond_warned,
                   types, V, it, converged, max_mis, iter_data, tol, max_iter, alpha,
                   outcome, ret, raised>>

\* clear_lines: self.line_data.clear()
ClearLines ==
    /\ pc = "idle"
    /\ line_data # << >>
    /\ line_data' = << >>
    /\ UNCHANGED <<bus_data, method, use_sparse, caller, pc, Ybus, warned, cond_warned,
                   types, V, it, converged, max_mis, iter_data, tol, max_iter, alpha,
                   outcome, ret, raised>>

\* run_analysis, lines 1283-1311: the input passes the three tests, the
\* tables are handed to the solver as np.array(self.bus_data) and
\* np.array(self.line_data), and solver.solve() is about to be called.
GUIStartSolve ==
    /\ pc = "idle"
    /\ method \in ComboMethods
    /\ ~GUIRejects
    /\ caller' = "gui"
    /\ pc' = "constructed"
    /\ UNCHANGED <<bus_data, line_data, method, use_sparse, Ybus, warned, cond_warned,
                   types, V, it, converged, max_mis, iter_data, tol, max_iter, alpha,
                   outcome, ret, raised>>

\* run_analysis returns (after the results or after the error message) and
\* the tables can be edited again.
GUIBackToTables ==
    /\ pc = "constructed"
    /\ caller' = "none"
    /\ pc' = "idle"
    /\ UNCHANGED <<bus_data, line_data, method, use_sparse, Ybus, warned, cond_warned,
                   types, V, it, converged, max_mis, iter_data, tol, max_iter, alpha,
                   outcome, ret, raised>>

\* The window after __init__: both tables empty.
InitG ==
    /\ bus_data = << >>
    /\ line_data = << >>
    /\ method \in ComboMethods
    /\ use_sparse = TRUE
    /\ FreshInstance

NextG ==
    \/ AddBus
    \/ EditBus
    \/ DeleteBus
    \/ ClearBuses
    \/ AddLine
    \/ EditLine
    \/ DeleteLine
    \/ ClearLines
    \/ GUIStartSolve
    \/ GUIBackToTables

SpecG == InitG /\ [][NextG]_vars

\* ================================================================ claims
\* What the source computes for a Slack bus at initialisation.
SetpointOf(i) ==
    IF method = "NR" THEN SlackSetpoint(bus_data[i]) ELSE GSSlackSetpoint(bus_data[i])

Solving == pc \in {"loop", "exit", "returned"}

Ended == pc \in {"returned", "raised"}

HasNonSlack == \E i \in Buses : bus_data[i].type # 1

\* C1: in every solver the voltage of a Slack bus equals its set-point from
\* initialisation on, after every iteration and in the returned vector.
C1_SlackInvariance ==
    Solving =>
        \A i \in Buses :
            bus_data[i].type = 1 =>
                /\ V[i] = SetpointOf(i)
                /\ pc = "returned" => ret.V[i] = SetpointOf(i)

\* A Newton-Raphson solve that returned after an update of the other buses.
C1_Witness ==
    /\ pc = "returned"
    /\ line_data # << >>
    /\ method = "NR"
    /\ Len(ret.iter_data) >= 2
    /\ \E i \in Buses : bus_data[i].type = 1
    /\ \E j \in Buses : ret.V[j] # NRInitV(bus_data)[j]

\* The power mismatch of the returned voltages is below the tolerance in
\* every entry: P at every non-Slack bus, Q at every PQ bus.
PowerBalanced(Vret) ==
    IF method = "NR"
    THEN MaxMis(CalcPowerMismatch(Ybus, Vret, P_spec(bus_data), Q_spec(bus_data), types)) < tol
    ELSE \A i \in Buses :
            bus_data[i].type # 1 =>
                /\ ~IsNaN(SCalc(Ybus, Vret, i))
                /\ GSPowerMis(Ybus, Vret, i, bus_data[i]) < tol

\* C2: when a solve reports convergence, the power mismatch of the returned
\* voltage vector is below the tolerance in every entry.
C2_ConvergedImpliesBalance ==
    (pc = "returned" /\ converged) => PowerBalanced(ret.V)

\* C3: a solve that ends without convergence raises nothing and returns the
\* last voltages, the trace and a converged flag that reads false.
C3_NonConvergenceIsAResult ==
    (Ended /\ outcome \in {"exhausted", "singular"}) =>
        /\ pc = "returned"
        /\ raised = "none"
        /\ ret.V = V
        /\ ret.iter_data = iter_data
        /\ "converged" \in DOMAIN ret
        /\ ret.converged = FALSE

C4_TypesFromInput ==
    Solving =>
        \A i \in Buses :
            \/ types[i] = bus_data[i].type
            \/ bus_data[i].type = 2 /\ types[i] = 3

C4_TypeStep ==
    Solving =>
        /\ DOMAIN types' = DOMAIN types
        /\ \A i \in DOMAIN types :
              \/ types'[i] = types[i]
              \/ types[i] = 2 /\ types'[i] = 3

\* C4: during a solve the type of a bus changes only from PV to PQ: never
\* back, and a Slack bus never changes type.
C4_TypeMonotonicity == [](C4_TypesFromInput) /\ [][C4_TypeStep]_vars

\* A returned solve of two or more iterations on a network with lines, a
\* Slack bus and a PV bus.
C4_Witness ==
    /\ pc = "returned"
    /\ line_data # << >>
    /\ Len(ret.iter_data) >= 2
    /\ \E i \in Buses : types[i] = 2
    /\ \E i \in Buses : types[i] = 1

\* C5: on a network whose only bus is a Slack bus every solver converges in
\* zero iterations with an empty trace and the set-point as the voltage.
C5_SlackOnlyNetwork ==
    (Ended /\ NB = 1 /\ bus_data[1].type = 1 /\ max_iter >= 1) =>
        /\ pc = "returned"
        /\ converged
        /\ ret.iter_data = << >>
        /\ ret.V = <<SetpointOf(1)>>

\* C6: Newton-Raphson with max_iter = k >= 1 on a network with a non-Slack
\* bus, the test failing k times and no singular Jacobian: the solve ends
\* not converged and the trace has exactly k records.
C6_ExhaustedTraceLength ==
    (Ended /\ method = "NR" /\ outcome = "exhausted" /\ max_iter >= 1 /\ HasNonSlack) =>
        /\ pc = "returned"
        /\ ~converged
        /\ Len(ret.iter_data) = max_iter

\* Two or more iterations on a network with lines, none of them converged.
C6_Witness ==
    /\ pc = "returned"
    /\ line_data # << >>
    /\ method = "NR"
    /\ outcome = "exhausted"
    /\ max_iter >= 2
    /\ HasNonSlack
    /\ Len(ret.iter_data) = max_iter

C7_SingularStep ==
    (method = "NR" /\ pc = "loop" /\ outcome' = "singular") =>
        /\ V' = V
        /\ ~converged'
        /\ raised' = "none"
        /\ pc' = "exit"
        /\ Len(iter_data') = Len(iter_data) + 1
        /\ SubSeq(iter_data', 1, Len(iter_data)) = iter_data
        /\ iter_data'[Len(iter_data')].Iteration = it + 1

C7_SingularEnd ==
    (method = "NR" /\ outcome = "singular") =>
        /\ ~converged
        /\ raised = "none"
        /\ pc \in {"exit", "returned"}
        /\ pc = "returned" => ret.V = V /\ ret.iter_data = iter_data

\* C7: a singular Jacobian stops Newton-Raphson without an update and
\* without an exception: the solve returns the voltages of the start of
\* that iteration and the trace with the record of that iteration, not
\* converged.
C7_SingularJacobianStops == [](C7_SingularEnd) /\ [][C7_SingularStep]_vars

\* The Jacobian is singular in the second iteration, after one update.
C7_Witness ==
    /\ pc = "returned"
    /\ line_data # << >>
    /\ method = "NR"
    /\ outcome = "singular"
    /\ Len(ret.iter_data) >= 2

NonDegenerate(lines) == SelectSeq(lines, LAMBDA l : ~ZeroImpedance(l))

\* C8: both builders skip a line with r = 0 and x = 0 with a warning: the
\* line is no error, its shunt is not added, and the matrix is the one of
\* the remaining lines.
C8_ZeroImpedanceSkipped ==
    (pc \in {"built", "raised"} /\ \E k \in 1..Len(line_data) : ZeroImpedance(line_data[k])) =>
        /\ pc = "built"
        /\ raised = "none"
        /\ Ybus = NRBuildYbus(NB, NonDegenerate(line_data))
        /\ Len(warned) = Len(line_data) - Len(NonDegenerate(line_data))

\* C9: no solve starts on a network whose number of Slack buses is not
\* one, whether it is started by the front end or by a direct call.
C9_SlackCountChecked ==
    Solving => SlackCount(bus_data) = 1

\* C10: the bus admittance matrix a builder returns is symmetric, whatever
\* the line list: parallel lines, both orientations, self-loops.
C10_YbusSymmetric ==
    pc = "built" => \A i \in Buses : \A j \in Buses : Ybus[i][j] = Ybus[j][i]

\* Two parallel lines of opposite orientation and different impedance.
C10_Witness ==
    /\ pc = "built"
    /\ Len(line_data) = 2
    /\ line_data[1][1] # line_data[1][2]
    /\ line_data[2][1] = line_data[1][2]
    /\ line_data[2][2] = line_data[1][1]
    /\ ~ZeroImpedance(line_data[1])
    /\ ~ZeroImpedance(line_data[2])
    /\ line_data[1][3] # line_data[2][3]

\* The sum over the non-degenerate lines from line k on of term(line) for the
\* lines that sel(line) selects.
RECURSIVE SumOverLines(_, _, _, _)
SumOverLines(lines, sel(_), term(_), k) ==
    IF k > Len(lines) THEN CZero
    ELSE IF ~ZeroImpedance(lines[k]) /\ sel(lines[k])
         THEN CAdd(term(lines[k]), SumOverLines(lines, sel, term, k + 1))
         ELSE SumOverLines(lines, sel, term, k + 1)

Incident(line, i) == line[1] = i \/ line[2] = i

Between(line, i, j) == (line[1] = i /\ line[2] = j) \/ (line[1] = j /\ line[2] = i)

SelfLoop(line) == line[1] = line[2]

\* Series admittance plus half shunt of every line incident to bus i.
DiagOfIncident(lines, i) ==
    SumOverLines(lines, LAMBDA l : Incident(l, i), LAMBDA l : CAdd(LineY(l), LineShunt(l)), 1)

\* As above for the lines to another bus; a line from i to i adds its two
\* half shunts only.
DiagOfProper(lines, i) ==
    CAdd(SumOverLines(lines, LAMBDA l : Incident(l, i) /\ ~SelfLoop(l),
                      LAMBDA l : CAdd(LineY(l), LineShunt(l)), 1),
         SumOverLines(lines, LAMBDA l : Incident(l, i) /\ SelfLoop(l),
                      LAMBDA l : CAdd(LineShunt(l), LineShunt(l)), 1))

OffDiagOf(lines, i, j) ==
    CNeg(SumOverLines(lines, LAMBDA l : Between(l, i, j), LAMBDA l : LineY(l), 1))

\* The half shunts at bus i: one per end of a line that is at i.
ShuntsAt(lines, i) ==
    CAdd(SumOverLines(lines, LAMBDA l : l[1] = i, LAMBDA l : LineShunt(l), 1),
         SumOverLines(lines, LAMBDA l : l[2] = i, LAMBDA l : LineShunt(l), 1))

RECURSIVE RowSum(_, _, _)
RowSum(Y, i, j) == IF j > Len(Y) THEN CZero ELSE CAdd(Y[i][j], RowSum(Y, i, j + 1))

\* C11 as stated: after build_ybus every diagonal entry is the sum of series
\* admittance plus half shunt over the non-degenerate lines incident to the
\* bus, every off-diagonal entry is minus the series admittance between the
\* two buses, and every row sums to the half shunts at the bus.
C11_YbusContents ==
    pc = "built" =>
        \A i \in Buses :
            /\ Ybus[i][i] = DiagOfIncident(line_data, i)
            /\ \A j \in Buses \ {i} : Ybus[i][j] = OffDiagOf(line_data, i, j)
            /\ RowSum(Ybus, i, 1) = ShuntsAt(line_data, i)

\* C11 as amended: the diagonal sum is over the lines to another bus, and a
\* line from a bus to itself adds only its two half shunts to the diagonal.
C11_YbusContentsProperLines ==
    pc = "built" =>
        \A i \in Buses :
            /\ Ybus[i][i] = DiagOfProper(line_data, i)
            /\ \A j \in Buses \ {i} : Ybus[i][j] = OffDiagOf(line_data, i, j)
            /\ RowSum(Ybus, i, 1) = ShuntsAt(line_data, i)

\* Built from two lines with shunts between two buses, no self-loop.
C11_Witness ==
    /\ pc = "built"
    /\ Len(line_data) = 2
    /\ \A k \in 1..2 : ~ZeroImpedance(line_data[k]) /\ ~SelfLoop(line_data[k])
    /\ line_data[1][1] # line_data[2][1]
    /\ Ybus[line_data[1][1]][line_data[1][1]] # CZero

\* C12: each of the three solver classes, built from the same bus and line
\* records, offers a solve that runs to a terminal state and returns a final
\* voltage vector and an iteration trace.
C12_EverySolverSolves ==
    (pc \in {"loop", "exit", "returned", "raised"} /\ ~GSBuildRaises(line_data)) =>
        /\ raised = "none"
        /\ pc = "returned" =>
              /\ DOMAIN ret = {"V", "iter_data"}
              /\ Len(ret.V) = NB

\* The reactive injection of bus i at the voltages Vr (rectangular).
QInjected(Vr, i) == SCalc(Ybus, Vr, i)[2]

\* C13: a Fast-Decoupled solve on a table with reactive limits ends with
\* every PV bus whose reactive injection lies outside its limits reclassified
\* to PQ (by the iteration that saw it), and has returned.
C13_FDLimitEnforcement ==
    (method = "FD" /\ Ended /\ \E i \in Buses : bus_data[i].type = 2 /\ HasLimits(bus_data[i])) =>
        /\ pc = "returned"
        /\ \A i \in Buses :
              \/ bus_data[i].type # 2
              \/ types[i] = 3
              \/ /\ types[i] = 2
                 /\ QInjected(ret.V, i) >= bus_data[i].Qmin
                 /\ QInjected(ret.V, i) <= bus_data[i].Qmax

NRLooping == method = "NR" /\ pc = "loop"

\* The unknown that belongs to an equation: the angle of the bus to its P
\* equation, the magnitude of the bus to its Q equation.
UnknownOf(label) == <<IF label[1] = "P" THEN "angle" ELSE "mag", label[2]>>

\* C15: for every assignment of bus types to bus positions the k-th entry
\* of the mismatch vector, the k-th row and the k-th column of the Jacobian
\* and the target of the k-th component of dX are of the same bus and the
\* same quantity.
C15_RowColumnAlignment ==
    NRLooping =>
        \A k \in 1..Jsize(types) :
            /\ MismatchLabel(types, k) = JacobianRowLabel(types, k)
            /\ JacobianColLabel(types, k) = UnknownOf(JacobianRowLabel(types, k))
            /\ UpdateLabel(types, k) = JacobianColLabel(types, k)

\* d(delta_k - delta_i) / d(delta_j)
DAngle(i, k, j) == (IF j = k THEN 1 ELSE 0) - (IF j = i THEN 1 ELSE 0)

\* The partial derivatives of P_i = sum_k CosTerm(i, k) and of
\* Q_i = -sum_k SinTerm(i, k), term by term: d cos(a) = -sin(a) da,
\* d sin(a) = cos(a) da, and the product rule for |V_i| |V_k|.
DPDAngle(Y, Vp, i, j) ==
    SumSeq([k \in DOMAIN Vp |-> -SinTerm(Y, Vp, i, k) * DAngle(i, k, j)])

DQDAngle(Y, Vp, i, j) ==
    -SumSeq([k \in DOMAIN Vp |-> CosTerm(Y, Vp, i, k) * DAngle(i, k, j)])

DPDMag(Y, Vp, i, j) ==
    SumSeq([k \in DOMAIN Vp |->
        (IF j = i THEN FMul(Vp[k][1], CosCoef(Y, Vp, i, k)) ELSE 0)
        + (IF j = k THEN FMul(Vp[i][1], CosCoef(Y, Vp, i, k)) ELSE 0)])

DQDMag(Y, Vp, i, j) ==
    -SumSeq([k \in DOMAIN Vp |->
        (IF j = i THEN FMul(Vp[k][1], SinCoef(Y, Vp, i, k)) ELSE 0)
        + (IF j = k THEN FMul(Vp[i][1], SinCoef(Y, Vp, i, k)) ELSE 0)])

\* The derivative the entry of row label row and column label col stands for.
Derivative(Y, Vp, row, col) ==
    IF row[1] = "P"
    THEN IF col[1] = "angle" THEN DPDAngle(Y, Vp, row[2], col[2])
         ELSE DPDMag(Y, Vp, row[2], col[2])
    ELSE IF col[1] = "angle" THEN DQDAngle(Y, Vp, row[2], col[2])
         ELSE DQDMag(Y, Vp, row[2], col[2])

\* The entries of the block of equations eq and unknowns un are derivatives.
BlockIsDerivative(eq, un) ==
    \A r \in 1..Jsize(types) : \A c \in 1..Jsize(types) :
        (JacobianRowLabel(types, r)[1] = eq /\ JacobianColLabel(types, c)[1] = un) =>
            Jacobian(Ybus, V, types)[r][c]
                = Derivative(Ybus, V, JacobianRowLabel(types, r), JacobianColLabel(types, c))

\* C16: every entry of the Jacobian built at the current voltages equals the
\* partial derivative of the power equations it stands for, in all four
\* blocks, diagonal and off-diagonal, sign included.
C16_JacobianIsDerivative ==
    NRLooping =>
        /\ BlockIsDerivative("P", "angle")
        /\ BlockIsDerivative("P", "mag")
        /\ BlockIsDerivative("Q", "angle")
        /\ BlockIsDerivative("Q", "mag")

\* The mismatch vector at the voltages of the current state.
CurrentMismatch == CalcPowerMismatch(Ybus, V, P_spec(bus_data), Q_spec(bus_data), types)

\* max |m[k]| < t and RMS(m) < t / 10, from their definitions; the second is
\* sum m[k]^2 / n < t^2 / 100 and is read only when the first holds.
BothTestsPass(m, t) ==
    /\ \A k \in 1..Len(m) : Abs(m[k]) < t
    /\ 100 * SumSeq([k \in 1..Len(m) |-> m[k] * m[k]]) < Len(m) * t * t

\* A step that ran one iteration of the loop on a non-empty mismatch vector.
NRIterationRan ==
    /\ NRLooping
    /\ Len(CurrentMismatch) > 0
    /\ it' = it + 1 \/ outcome' \in {"converged", "singular"}

C17_TestStep ==
    NRIterationRan =>
        /\ converged' <=> BothTestsPass(CurrentMismatch, tol)
        /\ converged' => V' = V /\ pc' = "exit"
        /\ ~converged' =>
              \/ outcome' = "singular"
              \/ it' = it + 1 /\ pc' = "loop"

\* C17: an iteration declares convergence if and only if max |mismatch| < tol
\* and RMS(mismatch) < tol / 10 at the current voltages; otherwise it goes on
\* to the Jacobian solve and the update.
C17_ConvergenceTest == [][C17_TestStep]_vars

\* The first iteration had its largest mismatch below tol and went on all
\* the same (the RMS test failed); a later iteration ran.
C17_Witness ==
    /\ method = "NR"
    /\ Len(iter_data) >= 2
    /\ iter_data[1].MaxMismatch < tol
    /\ converged

NonSlackBuses == {i \in DOMAIN types : types[i] \in {2, 3}}

PQBuses == {i \in DOMAIN types : types[i] = 3}

\* The entries of a mismatch vector of length n that stand for quantity q
\* of bus i.
EntriesOf(n, q, i) == {k \in 1..n : MismatchLabel(types, k) = <<q, i>>}

\* C18: the mismatch vector has exactly one entry P_spec - P_calc per
\* non-Slack bus and one entry Q_spec - Q_calc per PQ bus and nothing else,
\* and its length is the dimension size of the size x size Jacobian of the
\* same types.
C18_MismatchShape ==
    NRLooping =>
        LET m == CurrentMismatch
            n == Len(m)
            Pc == PCalc(Ybus, V)
            Qc == QCalc(Ybus, V)
            dP == [i \in NonSlackBuses |-> P_spec(bus_data)[i] - Pc[i]]
            dQ == [i \in PQBuses |-> Q_spec(bus_data)[i] - Qc[i]]
        IN  /\ n = Cardinality(NonSlackBuses) + Cardinality(PQBuses)
            /\ \A i \in NonSlackBuses :
                  /\ Cardinality(EntriesOf(n, "P", i)) = 1
                  /\ \A k \in EntriesOf(n, "P", i) : m[k] = dP[i]
            /\ \A i \in PQBuses :
                  /\ Cardinality(EntriesOf(n, "Q", i)) = 1
                  /\ \A k \in EntriesOf(n, "Q", i) : m[k] = dQ[i]
            /\ Jsize(types) = n

\* A second iteration on a network with a Slack, a PV and a PQ bus.
C18_Witness ==
    /\ NRLooping
    /\ it >= 1
    /\ \A t \in {1, 2, 3} : \E i \in DOMAIN types : types[i] = t
    /\ Len(CurrentMismatch) = 3

\* The magnitude of the voltage v of the state is vm: exactly for the polar
\* form of Newton-Raphson, to within one step of the grid for the
\* rectangular form of Gauss-Seidel.
MagnitudeIs(v, vm) ==
    IF method = "NR" THEN v[1] = vm
    ELSE /\ ~IsNaN(v)
         /\ (vm - 1) * (vm - 1) < CNorm2(v)
         /\ CNorm2(v) < (vm + 1) * (vm + 1)

\* C19: in every state of a solve, at initialisation and after every
\* iteration or sweep, the magnitude of each PV bus is its set-point.
C19_PVMagnitudePinned ==
    Solving =>
        \A i \in Buses : bus_data[i].type = 2 => MagnitudeIs(V[i], bus_data[i].vm)

\* The angle loop of the update alone, for the correction built from d.
AngleStep(d) ==
    AngleUpdate(V, NonSlackList(types), DXVector(types, d), StepSize(it), 1)

\* In a state of a Newton-Raphson solve every PQ magnitude is in [0.5, 1.5],
\* and the angle loop applied to the state changes no magnitude.
C20_StateOk ==
    (method = "NR" /\ Solving) =>
        /\ \A i \in Buses : types[i] = 3 => (V[i][1] >= 50 /\ V[i][1] <= 150)
        /\ pc = "loop" =>
              \A d \in DXSteps : \A i \in Buses : AngleStep(d)[i][1] = V[i][1]

\* An update of V changes the magnitude of PQ buses only.
C20_UpdateStep ==
    (method = "NR" /\ pc = "loop" /\ V' # V) =>
        \A i \in Buses : types[i] # 3 => V'[i][1] = V[i][1]

\* C20: in Newton-Raphson, in every state reached during a solve, the
\* magnitude of every PQ bus lies in [0.5, 1.5]; a magnitude update changes
\* PQ buses only, and an angle update leaves every magnitude unchanged.
C20_PQMagnitudeClamp == [](C20_StateOk) /\ [][C20_UpdateStep]_vars

\* An update has driven the magnitude of a PQ bus to the upper limit while
\* a PV bus of the same network kept its own.
C20_Witness ==
    /\ NRLooping
    /\ it >= 1
    /\ \E i \in Buses : types[i] = 3 /\ V[i][1] = 150
    /\ \E i \in Buses : types[i] = 2 /\ V[i][1] = bus_data[i].vm

\* The factor the claim gives the n-th iteration, n counted from 1.
FactorOf(n) == IF n <= 3 THEN 80 ELSE 100

\* V' is V corrected by d scaled by the factor f: angles of the non-Slack
\* buses, magnitudes of the PQ buses.
ScaledBy(f, d) ==
    \A i \in Buses :
        /\ types[i] = 1 => V'[i] = V[i]
        /\ types[i] = 2 => V'[i] = Polar(V[i][1], V[i][2] + FMul(f, d[1]))
        /\ types[i] = 3 =>
              V'[i] = Polar(ClipMag(V[i][1] + FMul(f, d[2])), V[i][2] + FMul(f, d[1]))

C21_UpdateStep ==
    (NRLooping /\ it' = it + 1) => \E d \in DXSteps : ScaledBy(FactorOf(it + 1), d)

\* C21: the correction of the n-th iteration of Newton-Raphson is scaled by
\* 0.8 when n <= 3 and by 1.0 when n >= 4, angle and magnitude components
\* alike.
C21_AdaptiveStep == [][C21_UpdateStep]_vars

\* The fourth iteration has updated the voltages of a network with a PQ bus.
C21_Witness ==
    /\ NRLooping
    /\ it = 4
    /\ \E i \in Buses : types[i] = 3

\* While a solve runs it has made at most max_iter passes and records.
WorkWithinMaxIter ==
    Solving => (it <= max_iter /\ Len(iter_data) <= max_iter)

\* C22: for every input and every max_iter >= 0 a solve of Newton-Raphson or
\* Gauss-Seidel makes at most max_iter iterations, then reaches a terminal
\* state and returns, with a trace of at most max_iter records.
C22_BoundedWork ==
    method \in {"NR", "GS"} =>
        /\ WorkWithinMaxIter
        /\ Ended => (pc = "returned" /\ Len(ret.iter_data) <= max_iter)

\* A step of the state machine that is one Gauss-Seidel sweep.
GSSweepStep == method = "GS" /\ pc = "loop" /\ Len(iter_data') = Len(iter_data) + 1

\* The voltages the update of bus i reads: this sweep's for the buses
\* before i, the previous sweep's from i on.
SeenBy(i) == [k \in Buses |-> IF k < i THEN V'[k] ELSE V[k]]

\* The update of bus i computed from the vector W.
UpdateFrom(W, i) ==
    IF bus_data[i].type = 1 THEN W[i]
    ELSE IF bus_data[i].type = 3 THEN GSUpdatePQ(Ybus, W, i, bus_data[i], alpha)
    ELSE GSUpdatePV(Ybus, W, i, bus_data[i], alpha)

C23_SweepStep ==
    GSSweepStep => \A i \in Buses : V'[i] = UpdateFrom(SeenBy(i), i)

\* C23: within one Gauss-Seidel sweep buses are updated in increasing index
\* order and in place: the update of bus i reads this sweep's values of the
\* buses k < i and the previous sweep's values of the buses k > i.
C23_SweepOrder == [][C23_SweepStep]_vars

\* After the first sweep of a network without NaN the voltages differ from
\* what a simultaneous update from the initial voltages gives.
C23_Witness ==
    /\ method = "GS"
    /\ Solving
    /\ Len(iter_data) = 1
    /\ \A i \in Buses : ~IsNaN(V[i])
    /\ \E i \in Buses : V[i] # UpdateFrom(GSInitV(bus_data), i)

\* |V_i(after the sweep) - V_i(before the sweep)| < tol; a difference that
\* is NaN is below nothing.
ChangeBelowTol(i) ==
    /\ ~IsNaN(CSub(V'[i], V[i]))
    /\ CNorm2(CSub(V'[i], V[i])) < tol * tol

MaxChangeBelowTol == \A i \in Buses : bus_data[i].type # 1 => ChangeBelowTol(i)

C24_SweepStep ==
    GSSweepStep =>
        /\ converged' <=> MaxChangeBelowTol
        /\ converged' => pc' = "exit"
        /\ ~converged

\* C24: a Gauss-Seidel sweep ends the solve as converged if and only if the
\* maximum over the non-Slack buses of |V_i(after) - V_i(before)| is below
\* tol, whatever the recorded power mismatch, and the solve stops at the
\* first sweep that meets the criterion.
C24_ConvergenceCriterion == [][C24_SweepStep]_vars

\* S_calc of the update of PV bus i, computed from the voltages it reads.
SCalcSeen(i) == SCalc(Ybus, SeenBy(i), i)

\* The reactive power the update of PV bus i solves with: np.clip of the
\* imaginary part of S_calc, when that is a number.
QUsed(i) == GSClipQ(SCalcSeen(i)[2], bus_data[i])

\* The new voltage of PV bus i is the solution for the power <<P, q>>.
SolvedWith(i, q) ==
    LET W == SeenBy(i)
        vi == IF W[i] = CZero THEN <<bus_data[i].vm, 0>> ELSE W[i]
        S == <<bus_data[i].PG - bus_data[i].PL, q>>
    IN  V'[i] = Blend(alpha, Renormalise(bus_data[i].vm, GSFormula(Ybus, W, i, S, vi)), vi)

\* With limit columns the reactive power used is a number within them.
ClampedUpdate(i) ==
    /\ ~IsNaN(SCalcSeen(i))
    /\ bus_data[i].Qmin <= QUsed(i)
    /\ QUsed(i) <= bus_data[i].Qmax
    /\ SolvedWith(i, QUsed(i))

\* Without limit columns the computed value is used as it is.
UnclampedUpdate(i) ==
    IF IsNaN(SCalcSeen(i)) THEN IsNaN(V'[i]) ELSE SolvedWith(i, SCalcSeen(i)[2])

C25_SweepStep ==
    GSSweepStep =>
        /\ \A i \in Buses : bus_data[i].type = 2 =>
              IF HasLimits(bus_data[i]) THEN ClampedUpdate(i) ELSE UnclampedUpdate(i)
        /\ bus_data' = bus_data
        /\ types' = types

\* C25: in every PV-bus update of Gauss-Seidel the reactive power used to
\* solve for the new voltage lies in [Qmin, Qmax]; without limit columns the
\* computed value is used unchanged; the clamp never changes the bus type.
C25_ReactiveClamp == [][C25_SweepStep]_vars

\* The records of a trace are numbered 1, 2, ..., n.
Numbered(tr) == \A k \in 1..Len(tr) : tr[k].Iteration = k

\* The trace grows by appending only while a solve runs.
C26_AppendOnly ==
    (pc = "loop" /\ pc' \in {"loop", "exit"}) =>
        /\ Len(iter_data') >= Len(iter_data)
        /\ SubSeq(iter_data', 1, Len(iter_data)) = iter_data

\* The trace a solve returns is the sequence of the passes of that call.
C26_ReturnedTrace ==
    pc = "returned" =>
        /\ Numbered(ret.iter_data)
        /\ Len(ret.iter_data) = IF outcome \in {"converged", "singular"} THEN it + 1 ELSE it

\* C26: the trace returned by a solve is exactly the ordered sequence of
\* the iterations of that call, numbered 1, 2, ..., n, appended in order and
\* never modified afterwards, for every solve call on an instance, a second
\* one included.
C26_TraceIntegrity == [](C26_ReturnedTrace) /\ [][C26_AppendOnly]_vars

\* cond_warned after the pass n + 1 printed the warning, if ill.
WarnedAfter(ill, n) == IF ill THEN Append(cond_warned, n + 1) ELSE cond_warned

\* A pass whose linear solve succeeded: the voltages were updated.
SolveSucceeded == NRLooping /\ it' = it + 1

\* The step is the one of a well-conditioned pass, up to the warning.
AsWellConditioned ==
    /\ \E d \in DXSteps : V' = NRUpdate(V, types, DXVector(types, d), it)
    /\ iter_data' = Append(iter_data, NRRecord(it, MaxMis(CurrentMismatch)))
    /\ max_mis' = MaxMis(CurrentMismatch)
    /\ pc' = "loop"
    /\ UNCHANGED <<bus_data, line_data, method, use_sparse, caller, Ybus, warned, types, converged,
                   tol, max_iter, alpha, outcome, ret, raised>>

C27_PassStep ==
    SolveSucceeded =>
        /\ AsWellConditioned
        /\ \E ill \in BOOLEAN : cond_warned' = WarnedAfter(ill, it)

\* C27: when the condition number of the Jacobian exceeds 1e12 and the
\* linear solve succeeds, Newton-Raphson only prints a diagnostic: the
\* update, the trace record and the next state are those of a
\* well-conditioned pass.
C27_IllConditionedNonFatal == [][C27_PassStep]_vars

\* A solve has gone on to a later pass after an ill-conditioned one.
C27_Witness ==
    /\ NRLooping
    /\ cond_warned # << >>
    /\ it > cond_warned[1]
    /\ Len(iter_data) = it
    /\ raised = "none"

\* The matrix the solver computes with, and the one an instance constructed
\* with use_sparse = False stores for the same line_data.
YbusSeen == YbusDense(use_sparse, NB, Ybus)

YbusOfDenseRun == NRBuildYbus(NB, line_data)

MismatchOfDenseRun ==
    CalcPowerMismatch(YbusOfDenseRun, V, P_spec(bus_data), Q_spec(bus_data), types)

SparseRun == method = "NR" /\ SparseBranch(use_sparse, NB) /\ Solving

\* In a sparse run the admittance entries, the mismatch vector and, at the
\* first pass, the Jacobian are those of the dense run in the same state.
C28_SameQuantities ==
    SparseRun =>
        LET S == YbusSeen
            D == YbusOfDenseRun
        IN  /\ S = D
            /\ pc = "loop" =>
                   CalcPowerMismatch(S, V, P_spec(bus_data), Q_spec(bus_data), types)
                       = MismatchOfDenseRun
            /\ (pc = "loop" /\ it = 0) => Jacobian(S, V, types) = Jacobian(D, V, types)

\* A pass of a sparse run is the pass the dense run makes from the same
\* state: the same record, the same verdict, the same corrected voltages.
C28_SamePass ==
    (SparseRun /\ pc = "loop" /\ iter_data' # iter_data) =>
        LET mismatch == MismatchOfDenseRun
        IN  /\ iter_data' = Append(iter_data, NRRecord(it, MaxMis(mismatch)))
            /\ converged' = NRConverged(mismatch, tol)
            /\ \/ V' = V
               \/ \E d \in DXSteps : V' = NRUpdate(V, types, DXVector(types, d), it)

\* What solve returns in a sparse run is the trace and the voltages it
\* reached.
C28_SameReturn ==
    (SparseRun /\ pc = "exit" /\ pc' = "returned") =>
        ret' = [V |-> V, iter_data |-> iter_data]

\* C28: for the same inputs Newton-Raphson with sparse storage (use_sparse
\* and more than 50 buses) computes the admittance entries, mismatch vectors
\* and Jacobians of the run with dense storage, and so passes through the
\* same states, trace and final voltages.
C28_RepresentationIndependence ==
    /\ [](C28_SameQuantities)
    /\ [][C28_SamePass /\ C28_SameReturn]_vars

\* A sparse run over a network with lines has returned after a pass.
C28_Witness ==
    /\ SparseRun
    /\ pc = "returned"
    /\ Len(line_data) > 1
    /\ Len(Ybus.data) > 0
    /\ Len(iter_data) > 0

\* Every line of the table names two buses of the bus table.
LinesNameBuses ==
    \A k \in 1..Len(line_data) :
        /\ HasBusNumber(bus_data, line_data[k][1])
        /\ HasBusNumber(bus_data, line_data[k][2])

\* Bus number k is in row k of the table (row k - 1 of the array).
BusNumbersAreRows == \A k \in 1..Len(bus_data) : bus_data[k].num = k

\* C29 as stated: whenever run_analysis starts a solve, after any sequence
\* of add, edit, delete and clear operations on the two tables, every line's
\* from and to number names a bus of the bus table and bus number k is in
\* row k - 1 of the array handed to the solver.
C29_BusIdentifierMapping ==
    pc = "constructed" => LinesNameBuses /\ BusNumbersAreRows

\* What run_analysis leaves in the status card and display_results in the
\* summary: "Running..." while solver.solve() runs, "Converged" (with the
\* count len(iter_data)) once it has returned, "Failed" after an exception.
StatusCard ==
    IF pc = "returned" THEN "Converged"
    ELSE IF pc = "raised" THEN "Failed"
    ELSE "Running"

\* C30 as stated: the GUI shows 'Converged' only if the solve it ran ended
\* with converged true.
C30_StatusMatchesOutcome ==
    (caller = "gui" /\ StatusCard = "Converged") => converged

=============================================================================
